---- MODULE Spec2Model ----
(***************************************************************************)
(* Rental marketplace: the relational schema (User, Listing, Reservation,  *)
(* Review, Payment) with its uniqueness constraints and cascading deletes, *)
(* the reservation availability checker and the booking and review request *)
(* handlers that run on top of it.                                         *)
(***************************************************************************)
EXTENDS Integers, FiniteSets, Sequences, TLC

\* ------------------------------------------------------------------ bounds
MaxUser == 2
MaxListing == 2
MaxReservation == 2
MaxReview == 2
MaxPayment == 2
MaxDay == 2
MaxRating == 2
MaxTab == 2

UserIds == 1..MaxUser
ListingIds == 1..MaxListing
ReservationIds == 1..MaxReservation
ReviewIds == 1..MaxReview
PaymentIds == 1..MaxPayment
\* Dates are day numbers; a stay is the half-open interval [startDate, endDate).
Days == 0..MaxDay
Ratings == 1..MaxRating
\* One email address per possible user.
Emails == 1..MaxUser
\* comment String? : absent or some text.
Comments == {"null", "text"}
\* Each client holds the session of one user and has at most one request in flight.
Clients == UserIds
\* Browser tabs posting reviews; several tabs may hold the session of the same user.
Tabs == 1..MaxTab

\* ------------------------------------------------------------------ schema
ReservationStatus == {"PENDING", "CONFIRMED", "CANCELLED", "COMPLETED"}

\* Faulty variant: a default outside the enum.
DefaultReservationStatusLowercase == "pending"

\* status ReservationStatus @default(PENDING)
DefaultReservationStatus == "PENDING"

VARIABLES
    users,          \* table users: rows [id, email]
    listings,       \* table listings: rows [id, userId]
    reservations,   \* table reservations: rows [id, userId, listingId, startDate, endDate, status]
    reviews,        \* table reviews: rows [id, userId, listingId, rating, comment]
    payments,       \* table payments: rows [id, reservationId]
    nextId,         \* per table, the number of ids handed out so far (ids are never reused)
    booking,        \* per client, the booking request in flight
    reviewReq,      \* per tab, the review request in flight
    signup,         \* per tab, the AuthService.signUp call in flight
    outbox,         \* ids of the users a verification email was sent to
    authReq,        \* per tab, the request to a withAuth-wrapped handler
    roleReq,        \* per tab, the request to a withRole-wrapped handler
    validation,     \* the request handed to validateRequest(createListingSchema) and its result
    redis,          \* per key, the entry of the redis cache
    cacheReq,       \* per tab, the call of getCachedListings in flight
    store,          \* per tab, useAppStore's state and the action last dispatched on it
    search,         \* the call of getListingsWithFilters: its table, filters and result
    loginReq,       \* per tab, the store's login call in flight
    dom,            \* per element of the document, the names of its attributes
    layoutScript    \* the root layout's inline script: what it has run and scheduled

dbVars == <<users, listings, reservations, reviews, payments, nextId>>
\* The listing search, the store's login and the root layout's script.
pageVars == <<search, loginReq, dom, layoutScript>>
\* State of the services and of the client around the marketplace requests.
auxVars == <<signup, outbox, authReq, roleReq, validation, redis, cacheReq, store, pageVars>>
vars == <<users, listings, reservations, reviews, payments, nextId, booking, reviewReq,
          auxVars>>

\* What AuthService.signUp leaves alone: everything but users, nextId, signup, outbox.
signUpFrame == <<listings, reservations, reviews, payments, booking, reviewReq,
                 authReq, roleReq, validation, redis, cacheReq, store, pageVars>>

\* What the authorization middleware leaves alone: everything but authReq, roleReq.
middlewareFrame == <<dbVars, booking, reviewReq, signup, outbox, validation,
                     redis, cacheReq, store, pageVars>>

\* What validateRequest leaves alone: everything but validation.
validationFrame == <<dbVars, booking, reviewReq, signup, outbox, authReq, roleReq,
                     redis, cacheReq, store, pageVars>>

\* What getCachedListings leaves alone: everything but redis and cacheReq.
cacheFrame == <<dbVars, booking, reviewReq, signup, outbox, authReq, roleReq,
                validation, store, pageVars>>

\* What the store's favorites actions leave alone: everything but store.
storeFrame == <<dbVars, booking, reviewReq, signup, outbox, authReq, roleReq,
                validation, redis, cacheReq, pageVars>>

\* What getListingsWithFilters leaves alone: everything but search.
searchFrame == <<dbVars, booking, reviewReq, signup, outbox, authReq, roleReq,
                 validation, redis, cacheReq, store, loginReq, dom, layoutScript>>

\* What the store's login and setUser leave alone: everything but store, loginReq.
loginFrame == <<dbVars, booking, reviewReq, signup, outbox, authReq, roleReq,
                validation, redis, cacheReq, search, dom, layoutScript>>

\* What the root layout's script leaves alone: everything but dom, layoutScript.
layoutFrame == <<dbVars, booking, reviewReq, signup, outbox, authReq, roleReq,
                 validation, redis, cacheReq, store, search, loginReq>>

Tables == {"users", "listings", "reservations", "reviews", "payments"}

Ids(rows) == {r.id : r \in rows}

\* ------------------------------------------------------------------ response envelope
\* NextResponse.json(successResponse(data)): undefined members are not serialised.
successResponse(data) == [success |-> TRUE, data |-> data]

\* Faulty variant: the error envelope built with the success flag of a success.
errorResponseFlagged(error, statusCode) ==
    [status |-> statusCode, body |-> [success |-> TRUE, error |-> error]]

\* NextResponse.json({ success: false, error }, { status: statusCode })
errorResponse(error, statusCode) ==
    [status |-> statusCode, body |-> [success |-> FALSE, error |-> error]]

okResponse(data) == [status |-> 200, body |-> successResponse(data)]

NoResponse == [status |-> 0, body |-> [success |-> FALSE, error |-> "none"]]

\* ------------------------------------------------------------------ storage layer
\* Rows as the schema declares them (columns no constraint or handler reads are left out).
UserRow(id, email) == [id |-> id, email |-> email]

ListingRow(id, userId) == [id |-> id, userId |-> userId]

ReservationRow(id, userId, listingId, startDate, endDate) ==
    [id |-> id, userId |-> userId, listingId |-> listingId,
     startDate |-> startDate, endDate |-> endDate, status |-> DefaultReservationStatus]

ReviewRow(id, userId, listingId, rating, comment) ==
    [id |-> id, userId |-> userId, listingId |-> listingId,
     rating |-> rating, comment |-> comment]

PaymentRow(id, reservationId) == [id |-> id, reservationId |-> reservationId]

\* Faulty variant: the users table without the unique index on email.
UserCreateOkOff(us, email) == TRUE

\* email String @unique
UserCreateOk(us, email) == \A u \in us : u.email # email

\* user User @relation(fields: [userId], references: [id])
ListingCreateOk(us, userId) == userId \in Ids(us)

\* Faulty variant: the table with an exclusion constraint on the stays of a listing.
ReservationCreateOkExclusive(rs, us, ls, row) ==
    /\ row.userId \in Ids(us)
    /\ row.listingId \in Ids(ls)
    /\ \A r \in rs :
          ~(/\ r.listingId = row.listingId
            /\ r.status # "CANCELLED"
            /\ r.startDate < row.endDate
            /\ row.startDate < r.endDate)

\* The reservations table has the two foreign keys and no constraint on the dates.
ReservationCreateOk(rs, us, ls, row) ==
    /\ row.userId \in Ids(us)
    /\ row.listingId \in Ids(ls)

\* Faulty variant: the reviews table without its unique index.
ReviewUniqueOff(rvs, userId, listingId) == TRUE

\* @@unique([userId, listingId])
ReviewUnique(rvs, userId, listingId) ==
    \A r \in rvs : ~(r.userId = userId /\ r.listingId = listingId)

ReviewForeignKeys(us, ls, userId, listingId) ==
    /\ userId \in Ids(us)
    /\ listingId \in Ids(ls)

\* reservationId String @unique, and the foreign key to reservations
PaymentCreateOk(ps, rs, reservationId) ==
    /\ reservationId \in Ids(rs)
    /\ \A p \in ps : p.reservationId # reservationId

\* onDelete: Cascade, relation by relation: the rows that survive the deletion of
\* the given parent rows.
CascadeListings(ls, goneUsers) == {l \in ls : l.userId \notin goneUsers}

\* Faulty variant: the guest relation of Reservation without onDelete: Cascade.
CascadeReservationsByListing(rs, goneUsers, goneListings) ==
    {r \in rs : r.listingId \notin goneListings}

CascadeReservations(rs, goneUsers, goneListings) ==
    {r \in rs : r.userId \notin goneUsers /\ r.listingId \notin goneListings}

CascadeReviews(rvs, goneUsers, goneListings) ==
    {r \in rvs : r.userId \notin goneUsers /\ r.listingId \notin goneListings}

\* Faulty variant: the reservation relation of Payment without onDelete: Cascade.
CascadePaymentsNone(ps, goneReservations) == ps

CascadePayments(ps, goneReservations) ==
    {p \in ps : p.reservationId \notin goneReservations}

\* One DELETE statement: the named rows go, and the cascade follows the relations
\* User -> Listing -> Reservation -> Payment, User -> Reservation, User/Listing -> Review.
Delete(delUsers, delListings, delReservations) ==
    LET ls2 == {l \in CascadeListings(listings, delUsers) : l.id \notin delListings}
        goneListings == Ids(listings) \ Ids(ls2)
        rs2 == {r \in CascadeReservations(reservations, delUsers, goneListings) :
                    r.id \notin delReservations}
        goneReservations == Ids(reservations) \ Ids(rs2)
    IN  /\ users' = {u \in users : u.id \notin delUsers}
        /\ listings' = ls2
        /\ reservations' = rs2
        /\ reviews' = CascadeReviews(reviews, delUsers, goneListings)
        /\ payments' = CascadePayments(payments, goneReservations)
        /\ UNCHANGED nextId

\* id String @id @default(cuid()): a fresh id, never handed out before.
FreshId(table) == nextId[table] + 1

Allocate(table) == nextId' = [nextId EXCEPT ![table] = @ + 1]

\* ------------------------------------------------------------------ direct table operations
UserCreate(email) ==
    /\ nextId["users"] < MaxUser
    /\ UserCreateOk(users, email)
    /\ users' = users \cup {UserRow(FreshId("users"), email)}
    /\ Allocate("users")
    /\ UNCHANGED <<listings, reservations, reviews, payments, booking, reviewReq, auxVars>>

ListingCreate(userId) ==
    /\ nextId["listings"] < MaxListing
    /\ ListingCreateOk(users, userId)
    /\ listings' = listings \cup {ListingRow(FreshId("listings"), userId)}
    /\ Allocate("listings")
    /\ UNCHANGED <<users, reservations, reviews, payments, booking, reviewReq, auxVars>>

ReservationCreate(userId, listingId, startDate, endDate) ==
    LET row == ReservationRow(FreshId("reservations"), userId, listingId, startDate, endDate)
    IN  /\ nextId["reservations"] < MaxReservation
        /\ ReservationCreateOk(reservations, users, listings, row)
        /\ reservations' = reservations \cup {row}
        /\ Allocate("reservations")
        /\ UNCHANGED <<users, listings, reviews, payments, booking, reviewReq, auxVars>>

ReviewCreate(userId, listingId, rating, comment) ==
    /\ nextId["reviews"] < MaxReview
    /\ ReviewForeignKeys(users, listings, userId, listingId)
    /\ ReviewUnique(reviews, userId, listingId)
    /\ reviews' = reviews \cup {ReviewRow(FreshId("reviews"), userId, listingId, rating, comment)}
    /\ Allocate("reviews")
    /\ UNCHANGED <<users, listings, reservations, payments, booking, reviewReq, auxVars>>

PaymentCreate(reservationId) ==
    /\ nextId["payments"] < MaxPayment
    /\ PaymentCreateOk(payments, reservations, reservationId)
    /\ payments' = payments \cup {PaymentRow(FreshId("payments"), reservationId)}
    /\ Allocate("payments")
    /\ UNCHANGED <<users, listings, reservations, reviews, booking, reviewReq, auxVars>>

UserDelete(userId) ==
    /\ userId \in Ids(users)
    /\ Delete({userId}, {}, {})
    /\ UNCHANGED <<booking, reviewReq, auxVars>>

ListingDelete(listingId) ==
    /\ listingId \in Ids(listings)
    /\ Delete({}, {listingId}, {})
    /\ UNCHANGED <<booking, reviewReq, auxVars>>

ReservationDelete(reservationId) ==
    /\ reservationId \in Ids(reservations)
    /\ Delete({}, {}, {reservationId})
    /\ UNCHANGED <<booking, reviewReq, auxVars>>

\* ------------------------------------------------------------------ initial states
IdleBooking == [pc |-> "idle", listingId |-> 0, startDate |-> 0, endDate |-> 0,
                response |-> NoResponse]

IdleReview == [pc |-> "idle", userId |-> 0, listingId |-> 0, rating |-> 0,
               comment |-> "null", response |-> NoResponse]

IdleSignUp == [pc |-> "idle", email |-> 0, user |-> 0, error |-> "none"]

\* req.user is not set / getServerSession returned null.
NoUser == [id |-> 0, role |-> "undefined"]

IdleAuth == [pc |-> "idle", session |-> NoUser, user |-> NoUser, calls |-> 0,
             response |-> NoResponse]

IdleRole == [pc |-> "idle", roles |-> {}, user |-> NoUser, calls |-> 0,
             response |-> NoResponse]

\* The listing of a request body: strings by their length (-1: not a string),
\* numbers in halves (3 is 1.5), the images by their count and whether each is a
\* URL, the optional amenities absent, a list of cuids or something else.
NoBody == [title |-> 0, description |-> 0, category |-> "none", roomCount |-> 0,
           bathroomCount |-> 0, guestCount |-> 0, locationValue |-> 0, price |-> 0,
           imageSrc |-> [count |-> 0, urls |-> TRUE], amenities |-> "absent"]

NoResult == [success |-> FALSE, error |-> "none"]

IdleValidation == [pc |-> "idle", readable |-> FALSE, body |-> NoBody,
                   threw |-> FALSE, result |-> NoResult]

\* useAppStore's initial state (user 0 is null), no action dispatched.
InitialStore ==
    [user |-> 0, isAuthenticated |-> FALSE, isLoginModalOpen |-> FALSE,
     favorites |-> << >>, call |-> [action |-> "none", listingId |-> 0]]

\* The keys getCachedListings is called with.
CacheKeys == {"listings"}

\* A key redis does not hold.
NoEntry == [present |-> FALSE, value |-> {}, ttl |-> 0]

IdleCache == [pc |-> "idle", key |-> "listings", data |-> {}, hit |-> FALSE]

\* The filters of a search that gives none: absent members are undefined.
NoFilters ==
    [category |-> "undefined", location |-> "undefined",
     priceRange |-> [given |-> FALSE, min |-> 0, max |-> 0],
     amenities |-> [given |-> FALSE, ids |-> {}],
     page |-> [given |-> FALSE, n |-> 0]]

IdleSearch == [pc |-> "idle", size |-> 0, filters |-> NoFilters, tieAscending |-> FALSE,
               result |-> << >>]

IdleLogin == [pc |-> "idle", outcome |-> "none", user |-> 0, rejected |-> FALSE]

\* The elements of the document: the body that holds the script, and the div
\* that follows the script.
Elements == {"body", "div"}

\* The script has not run.
IdleScript == [ran |-> 0, timeout |-> "none", listener |-> "none", cleaned |-> FALSE]

\* Nothing in flight on the page.
PageIdle ==
    /\ search = IdleSearch
    /\ loginReq = [tab \in Tabs |-> IdleLogin]
    /\ dom = [el \in Elements |-> {}]
    /\ layoutScript = IdleScript

\* Nothing in flight in the services and the client.
AuxIdle ==
    /\ signup = [tab \in Tabs |-> IdleSignUp]
    /\ outbox = {}
    /\ authReq = [tab \in Tabs |-> IdleAuth]
    /\ roleReq = [tab \in Tabs |-> IdleRole]
    /\ validation = IdleValidation
    /\ redis = [key \in CacheKeys |-> NoEntry]
    /\ cacheReq = [tab \in Tabs |-> IdleCache]
    /\ store = [tab \in Tabs |-> InitialStore]
    /\ PageIdle

NoRequests ==
    /\ booking = [c \in Clients |-> IdleBooking]
    /\ reviewReq = [tab \in Tabs |-> IdleReview]
    /\ AuxIdle

\* An empty database.
InitDb ==
    /\ users = {}
    /\ listings = {}
    /\ reservations = {}
    /\ reviews = {}
    /\ payments = {}
    /\ nextId = [t \in Tables |-> 0]
    /\ NoRequests

NextDb ==
    \/ \E email \in Emails : UserCreate(email)
    \/ \E u \in UserIds : ListingCreate(u)
    \/ \E u \in UserIds, l \in ListingIds : ReservationCreate(u, l, 0, 1)
    \/ \E u \in UserIds, l \in ListingIds, rating \in Ratings :
          ReviewCreate(u, l, rating, "null")
    \/ \E r \in ReservationIds : PaymentCreate(r)
    \/ \E u \in UserIds : UserDelete(u)
    \/ \E l \in ListingIds : ListingDelete(l)
    \/ \E r \in ReservationIds : ReservationDelete(r)

SpecDb == InitDb /\ [][NextDb]_vars

\* ------------------------------------------------------------------ availability checker
\* Faulty variant: the overlap test on closed intervals.
overlapsClosed(s1, e1, s2, e2) == s1 <= e2 /\ s2 <= e1

\* Half-open interval overlap: [s1, e1) and [s2, e2) share a day.
overlaps(s1, e1, s2, e2) == s1 < e2 /\ s2 < e1

\* Faulty variant: only pending and confirmed reservations hold their dates.
BlockingPendingConfirmed(status) == status \in {"PENDING", "CONFIRMED"}

\* The query's status filter: the reservations that hold their dates.
Blocking(status) == status # "CANCELLED"

\* Faulty variant: the read query without its listing filter.
FetchReservationsAnyListing(rs, listingId) == {r \in rs : r.status # "CANCELLED"}

\* The read query: the reservations of the listing that can block a stay.
FetchReservations(rs, listingId) ==
    {r \in rs : r.listingId = listingId /\ Blocking(r.status)}

\* Faulty variant: the validation lets a zero-length interval through.
ValidIntervalLoose(startDate, endDate) == startDate <= endDate

\* Input validation of the candidate interval.
ValidInterval(startDate, endDate) == startDate < endDate

\* Faulty variant: a test of the candidate's first night only.
ConflictsStartOnly(rs, listingId, startDate, endDate) ==
    {r \in FetchReservations(rs, listingId) :
        r.startDate <= startDate /\ startDate < r.endDate}

\* The overlap test on the fetched rows.
Conflicts(rs, listingId, startDate, endDate) ==
    {r \in FetchReservations(rs, listingId) :
        overlaps(startDate, endDate, r.startDate, r.endDate)}

CheckAvailability(rs, listingId, startDate, endDate) ==
    IF ~ValidInterval(startDate, endDate) THEN "invalid"
    ELSE IF Conflicts(rs, listingId, startDate, endDate) # {} THEN "conflicting"
    ELSE "available"

\* ------------------------------------------------------------------ booking request handler
\* Requests in flight that have passed the check and will insert a reservation.
PendingInserts == Cardinality({c \in Clients : booking[c].pc = "insert"})

\* POST /api/reservations arrives with the session of client c; the body is validated
\* before any query runs.
BookingPost(c, listingId, startDate, endDate) ==
    /\ booking[c].pc = "idle"
    /\ IF ~ValidInterval(startDate, endDate)
       THEN booking' = [booking EXCEPT ![c] =
                [pc |-> "done", listingId |-> listingId, startDate |-> startDate,
                 endDate |-> endDate, response |-> errorResponse("Invalid dates", 400)]]
       ELSE booking' = [booking EXCEPT ![c] =
                [pc |-> "check", listingId |-> listingId, startDate |-> startDate,
                 endDate |-> endDate, response |-> NoResponse]]
    /\ UNCHANGED <<dbVars, reviewReq, auxVars>>

\* The read query and the overlap test.
BookingCheck(c) ==
    LET b == booking[c]
        answer == CheckAvailability(reservations, b.listingId, b.startDate, b.endDate)
    IN  /\ b.pc = "check"
        \* the model hands out at most MaxReservation reservation ids
        /\ answer = "available" => nextId["reservations"] + PendingInserts < MaxReservation
        /\ IF answer = "conflicting"
           THEN booking' = [booking EXCEPT ![c] =
                    [b EXCEPT !.pc = "done",
                              !.response = errorResponse("Dates not available", 409)]]
           ELSE booking' = [booking EXCEPT ![c].pc = "insert"]
        /\ UNCHANGED <<dbVars, reviewReq, auxVars>>

\* The insert, a statement of its own.
BookingInsert(c) ==
    LET b == booking[c]
        row == ReservationRow(FreshId("reservations"), c, b.listingId, b.startDate, b.endDate)
    IN  /\ b.pc = "insert"
        /\ IF ReservationCreateOk(reservations, users, listings, row)
           THEN /\ reservations' = reservations \cup {row}
                /\ Allocate("reservations")
                /\ booking' = [booking EXCEPT ![c] =
                        [b EXCEPT !.pc = "done", !.response = okResponse(row.id)]]
           ELSE /\ UNCHANGED <<reservations, nextId>>
                /\ booking' = [booking EXCEPT ![c] =
                        [b EXCEPT !.pc = "done",
                                  !.response = errorResponse("Could not create reservation", 500)]]
        /\ UNCHANGED <<users, listings, reviews, payments, reviewReq, auxVars>>

\* The response has been sent; the client may send its next request.
BookingRespond(c) ==
    /\ booking[c].pc = "done"
    /\ booking' = [booking EXCEPT ![c] = IdleBooking]
    /\ UNCHANGED <<dbVars, reviewReq, auxVars>>

\* POST /api/reservations/[id]/cancel, /confirm, and the stay's completion.
SetStatus(reservationId, from, to) ==
    /\ \E r \in reservations :
          /\ r.id = reservationId
          /\ r.status \in from
          /\ reservations' = (reservations \ {r}) \cup {[r EXCEPT !.status = to]}
    /\ UNCHANGED <<users, listings, reviews, payments, nextId, booking, reviewReq, auxVars>>

ReservationCancel(reservationId) ==
    SetStatus(reservationId, {"PENDING", "CONFIRMED"}, "CANCELLED")

ReservationConfirm(reservationId) ==
    SetStatus(reservationId, {"PENDING"}, "CONFIRMED")

ReservationComplete(reservationId) ==
    SetStatus(reservationId, {"CONFIRMED"}, "COMPLETED")

\* Every user signed up and every listing published; no reservation yet.
InitMarket ==
    /\ users = {UserRow(u, u) : u \in UserIds}
    /\ listings = {ListingRow(l, ((l - 1) % MaxUser) + 1) : l \in ListingIds}
    /\ reservations = {}
    /\ reviews = {}
    /\ payments = {}
    /\ nextId = [t \in Tables |->
                    IF t = "users" THEN MaxUser ELSE IF t = "listings" THEN MaxListing ELSE 0]
    /\ NoRequests

NextBooking ==
    \/ \E c \in Clients, l \in ListingIds, s \in Days, e \in Days : BookingPost(c, l, s, e)
    \/ \E c \in Clients : BookingCheck(c)
    \/ \E c \in Clients : BookingInsert(c)
    \/ \E c \in Clients : BookingRespond(c)
    \/ \E r \in ReservationIds : ReservationCancel(r)
    \/ \E r \in ReservationIds : ReservationConfirm(r)
    \/ \E r \in ReservationIds : ReservationComplete(r)

SpecBooking == InitMarket /\ [][NextBooking]_vars

\* ------------------------------------------------------------------ claims: reservations
Stays == {<<s, e>> \in Days \X Days : s < e}

\* Two distinct reservations of one listing, neither cancelled, whose stays share a day.
DoubleBooking(r1, r2) ==
    /\ r1.id # r2.id
    /\ r1.listingId = r2.listingId
    /\ r1.status # "CANCELLED"
    /\ r2.status # "CANCELLED"
    /\ r1.startDate < r2.endDate
    /\ r2.startDate < r1.endDate

\* C1: in every reachable state no two non-cancelled reservations of the same
\* listing have overlapping half-open intervals.
NoDoubleBooking == \A r1 \in reservations, r2 \in reservations : ~DoubleBooking(r1, r2)

\* C2: for every listing and every candidate [s, e) with s < e the checker answers
\* "conflicting" exactly when a non-cancelled reservation [rs, re) of that listing
\* has s < re and rs < e; otherwise it answers "available". Reservations of other
\* listings play no part.
CheckerIsOverlapTest ==
    \A l \in ListingIds, stay \in Stays :
        LET hit == \E r \in reservations :
                      /\ r.listingId = l
                      /\ r.status # "CANCELLED"
                      /\ stay[1] < r.endDate
                      /\ r.startDate < stay[2]
            answer == CheckAvailability(reservations, l, stay[1], stay[2])
        IN  /\ answer \in {"conflicting", "available"}
            /\ (answer = "conflicting") <=> hit

\* C2 witness: a request was refused for a conflict while the same stay on another
\* listing, which holds no reservation of its own for those days, is available.
CheckerRefusedWitness ==
    \E c \in Clients :
        /\ booking[c].pc = "done"
        /\ booking[c].response = errorResponse("Dates not available", 409)
        /\ \E l \in ListingIds :
              /\ l # booking[c].listingId
              /\ CheckAvailability(reservations, l, booking[c].startDate, booking[c].endDate)
                    = "available"

\* C3: the insert of a request that has passed the check always succeeds and stores
\* the request's stay as a PENDING reservation, whatever was inserted in between;
\* nothing re-checks the dates at insert time.
InsertIgnoresOverlap ==
    [][\A c \in Clients :
          (booking[c].pc = "insert" /\ booking'[c].pc = "done") =>
              /\ booking'[c].response.body.success
              /\ \E r \in reservations' \ reservations :
                    /\ r.userId = c
                    /\ r.listingId = booking[c].listingId
                    /\ r.startDate = booking[c].startDate
                    /\ r.endDate = booking[c].endDate
                    /\ r.status = "PENDING"]_vars

\* C3 witness: both clients were answered with success and their two reservations
\* of one listing overlap.
RaceWitness ==
    \E c1 \in Clients, c2 \in Clients :
        /\ c1 # c2
        /\ booking[c1].pc = "done" /\ booking[c1].response.body.success
        /\ booking[c2].pc = "done" /\ booking[c2].response.body.success
        /\ \E r1 \in reservations, r2 \in reservations :
              /\ r1.id = booking[c1].response.body.data
              /\ r2.id = booking[c2].response.body.data
              /\ DoubleBooking(r1, r2)

\* C4: a request whose interval has start >= end is answered with an invalid-input
\* error as it arrives; it never reaches the overlap test or the insert, and the
\* step that rejects it leaves the reservations as they were.
InvalidIntervalRejected ==
    [][\A c \in Clients :
          (/\ booking[c].pc = "idle"
           /\ booking'[c].pc # "idle"
           /\ booking'[c].startDate >= booking'[c].endDate) =>
              /\ booking'[c].pc = "done"
              /\ booking'[c].response = errorResponse("Invalid dates", 400)
              /\ reservations' = reservations]_vars

\* C4 witness: a zero-length and an inverted request stand rejected, one for a
\* listing that holds a reservation and one for a listing that holds none.
InvalidRejectedWitness ==
    \E c1 \in Clients, c2 \in Clients :
        /\ booking[c1].pc = "done" /\ booking[c1].startDate = booking[c1].endDate
        /\ booking[c2].pc = "done" /\ booking[c2].startDate > booking[c2].endDate
        /\ booking[c1].response = errorResponse("Invalid dates", 400)
        /\ booking[c2].response = errorResponse("Invalid dates", 400)
        /\ \E r \in reservations : r.listingId = booking[c1].listingId
        /\ \A r \in reservations : r.listingId # booking[c2].listingId

\* [s, e) touches the reservation r at an endpoint.
Adjacent(r, s, e) == s = r.endDate \/ r.startDate = e

\* C5: a non-cancelled reservation that a valid candidate touches only at an
\* endpoint is not among the candidate's conflicts, and a candidate that every
\* non-cancelled reservation of the listing either touches at an endpoint or lies
\* apart from is available.
AdjacentNeverConflicts ==
    \A l \in ListingIds, stay \in Stays :
        LET active == {r \in reservations : r.listingId = l /\ r.status # "CANCELLED"}
        IN  /\ \A r \in active :
                  Adjacent(r, stay[1], stay[2]) =>
                      r \notin Conflicts(reservations, l, stay[1], stay[2])
            /\ (\A r \in active : r.endDate <= stay[1] \/ stay[2] <= r.startDate) =>
                  CheckAvailability(reservations, l, stay[1], stay[2]) = "available"

\* C5 witness: a booking that starts on the day an earlier, still active reservation
\* of the listing ends has been accepted.
AdjacentAcceptedWitness ==
    \E c \in Clients :
        /\ booking[c].pc = "done"
        /\ booking[c].response.body.success
        /\ \E r \in reservations :
              /\ r.id < booking[c].response.body.data
              /\ r.listingId = booking[c].listingId
              /\ r.status # "CANCELLED"
              /\ r.endDate = booking[c].startDate
        /\ NoDoubleBooking

\* C6: a valid candidate that overlaps only cancelled reservations of the listing is
\* available, and one that overlaps a pending, confirmed or completed reservation
\* of the listing is conflicting.
OnlyCancelledNeverBlocks ==
    \A l \in ListingIds, stay \in Stays :
        LET over == {r \in reservations :
                        /\ r.listingId = l
                        /\ stay[1] < r.endDate
                        /\ r.startDate < stay[2]}
            answer == CheckAvailability(reservations, l, stay[1], stay[2])
        IN  /\ (\A r \in over : r.status = "CANCELLED") => answer = "available"
            /\ (\E r \in over : r.status \in {"PENDING", "CONFIRMED", "COMPLETED"}) =>
                  answer = "conflicting"

\* C6 witness: a booking has been accepted for days that an earlier reservation of
\* the listing, cancelled since, had taken, while a completed reservation blocks
\* its own days.
RebookedAfterCancelWitness ==
    \E c \in Clients :
        /\ booking[c].pc = "done"
        /\ booking[c].response.body.success
        /\ \E r \in reservations :
              /\ r.id < booking[c].response.body.data
              /\ r.listingId = booking[c].listingId
              /\ r.status = "CANCELLED"
              /\ r.startDate = booking[c].startDate
              /\ r.endDate = booking[c].endDate
        /\ \E r \in reservations :
              /\ r.id = booking[c].response.body.data
              /\ r.status = "COMPLETED"
              /\ CheckAvailability(reservations, r.listingId, r.startDate, r.endDate)
                    = "conflicting"

\* ------------------------------------------------------------------ review request handler
\* POST /api/listings/[id]/reviews arrives from a tab holding the session of userId.
ReviewPost(tab, userId, listingId, rating, comment) ==
    /\ reviewReq[tab].pc = "idle"
    /\ reviewReq' = [reviewReq EXCEPT ![tab] =
            [pc |-> "create", userId |-> userId, listingId |-> listingId,
             rating |-> rating, comment |-> comment, response |-> NoResponse]]
    /\ UNCHANGED <<dbVars, booking, auxVars>>

\* The handler issues the insert and turns the storage layer's answer into the
\* envelope: a foreign key violation is not-found, a uniqueness violation a conflict.
ReviewInsert(tab) ==
    LET q == reviewReq[tab]
        row == ReviewRow(FreshId("reviews"), q.userId, q.listingId, q.rating, q.comment)
        answer(resp) == reviewReq' = [reviewReq EXCEPT ![tab] =
                            [q EXCEPT !.pc = "done", !.response = resp]]
    IN  /\ q.pc = "create"
        /\ IF ~ReviewForeignKeys(users, listings, q.userId, q.listingId)
           THEN /\ answer(errorResponse("Not found", 404))
                /\ UNCHANGED <<reviews, nextId>>
           ELSE IF ~ReviewUnique(reviews, q.userId, q.listingId)
           THEN /\ answer(errorResponse("Review already exists", 409))
                /\ UNCHANGED <<reviews, nextId>>
           ELSE \* the model hands out at most MaxReview review ids
                /\ nextId["reviews"] < MaxReview
                /\ reviews' = reviews \cup {row}
                /\ Allocate("reviews")
                /\ answer(okResponse(row.id))
        /\ UNCHANGED <<users, listings, reservations, payments, booking, auxVars>>

ReviewRespond(tab) ==
    /\ reviewReq[tab].pc = "done"
    /\ reviewReq' = [reviewReq EXCEPT ![tab] = IdleReview]
    /\ UNCHANGED <<dbVars, booking, auxVars>>

NextReview ==
    \/ \E tab \in Tabs, u \in UserIds, l \in ListingIds, rating \in Ratings,
          comment \in Comments : ReviewPost(tab, u, l, rating, comment)
    \/ \E tab \in Tabs : ReviewInsert(tab)
    \/ \E tab \in Tabs : ReviewRespond(tab)

SpecReview == InitMarket /\ [][NextReview]_vars

\* ------------------------------------------------------------------ claims: reviews
\* C7: at most one review per (user, listing) pair in every reachable state.
OneReviewPerPair ==
    \A r1 \in reviews, r2 \in reviews :
        (r1.userId = r2.userId /\ r1.listingId = r2.listingId) => r1 = r2

\* C7 witness: two tabs posted a review for the same pair at the same time; one of
\* them was stored and both have been answered.
InterleavedReviewsWitness ==
    \E t1 \in Tabs, t2 \in Tabs :
        /\ t1 # t2
        /\ reviewReq[t1].pc = "done" /\ reviewReq[t2].pc = "done"
        /\ reviewReq[t1].userId = reviewReq[t2].userId
        /\ reviewReq[t1].listingId = reviewReq[t2].listingId
        /\ reviewReq[t1].response.body.success
        /\ \E r \in reviews :
              r.userId = reviewReq[t1].userId /\ r.listingId = reviewReq[t1].listingId

\* C8: the insert of a review for a pair that already has one ends the request with
\* an error envelope (success false, an error, status 409) and leaves the reviews
\* table, and so the stored rating and comment, as it was.
DuplicateReviewConflicts ==
    [][\A tab \in Tabs :
          (/\ reviewReq[tab].pc = "create"
           /\ reviewReq'[tab].pc = "done"
           /\ \E r \in reviews : /\ r.userId = reviewReq[tab].userId
                                 /\ r.listingId = reviewReq[tab].listingId) =>
              /\ reviewReq'[tab].response.body.success = FALSE
              /\ reviewReq'[tab].response.body.error = "Review already exists"
              /\ reviewReq'[tab].response.status = 409
              /\ reviews' = reviews]_vars

\* C8 witness: an attempt with another rating and comment than the stored review of
\* its pair has been refused.
DuplicateRefusedWitness ==
    \E tab \in Tabs :
        /\ reviewReq[tab].pc = "done"
        /\ reviewReq[tab].response.status = 409
        /\ \E r \in reviews :
              /\ r.userId = reviewReq[tab].userId
              /\ r.listingId = reviewReq[tab].listingId
              /\ r.rating # reviewReq[tab].rating
              /\ r.comment # reviewReq[tab].comment

\* ------------------------------------------------------------------ claims: cascade
\* C9: the statement that deletes a user leaves no listing, reservation or review
\* with that userId.
UserDeleteCascades ==
    [][\A u \in UserIds :
          (u \in Ids(users) /\ u \notin Ids(users')) =>
              /\ \A l \in listings' : l.userId # u
              /\ \A r \in reservations' : r.userId # u
              /\ \A r \in reviews' : r.userId # u]_vars

\* C9 witness: the only listing ever created is still there and the reviews written
\* on it are gone while a user is: reviews go only with their author or their
\* listing, so the deletion of their author removed them.
UserDeletedWitness ==
    /\ nextId["listings"] = 1
    /\ listings # {}
    /\ nextId["reviews"] >= 1
    /\ reviews = {}
    /\ nextId["reservations"] >= 1
    /\ reservations = {}
    /\ Cardinality(users) < nextId["users"]

\* C10: every reservation and review refers to an existing user and an existing
\* listing, every listing to an existing user and every payment to an existing
\* reservation.
ReferentialIntegrity ==
    /\ \A l \in listings : l.userId \in Ids(users)
    /\ \A r \in reservations : r.userId \in Ids(users) /\ r.listingId \in Ids(listings)
    /\ \A r \in reviews : r.userId \in Ids(users) /\ r.listingId \in Ids(listings)
    /\ \A p \in payments : p.reservationId \in Ids(reservations)

\* C10 witness: no user was ever deleted and every listing is gone, and with them
\* the reviews written on them (a review goes only with its author or its listing)
\* and every reservation and payment.
ListingDeletedWitness ==
    /\ nextId["users"] = MaxUser
    /\ Cardinality(users) = MaxUser
    /\ nextId["listings"] >= 1
    /\ listings = {}
    /\ nextId["reviews"] >= 1
    /\ reviews = {}
    /\ nextId["reservations"] >= 1
    /\ reservations = {}
    /\ nextId["payments"] >= 1
    /\ payments = {}

\* ------------------------------------------------------------------ AuthService.signUp
\* signUpSchema.parse(credentials) throws on malformed credentials; then the lookup.
SignUpCall(tab, email, wellFormed) ==
    /\ signup[tab].pc = "idle"
    /\ signup' = [signup EXCEPT ![tab] =
            IF wellFormed
            THEN [pc |-> "lookup", email |-> email, user |-> 0, error |-> "none"]
            ELSE [pc |-> "threw", email |-> email, user |-> 0, error |-> "ZodError"]]
    /\ UNCHANGED <<users, nextId, outbox, signUpFrame>>

\* prisma.user.findUnique({ where: { email } })
findUniqueByEmail(us, email) == {u \in us : u.email = email}

\* const existingUser = await prisma.user.findUnique(...); if (existingUser) throw
SignUpLookup(tab) ==
    LET s == signup[tab]
    IN  /\ s.pc = "lookup"
        /\ signup' = [signup EXCEPT ![tab] =
                IF findUniqueByEmail(users, s.email) # {}
                THEN [s EXCEPT !.pc = "threw", !.error = "User already exists"]
                ELSE [s EXCEPT !.pc = "hash"]]
        /\ UNCHANGED <<users, nextId, outbox, signUpFrame>>

\* Faulty variant: a signUp that sends the email before it creates the user.
SignUpHashThenEmail(tab) ==
    /\ signup[tab].pc = "hash"
    /\ signup' = [signup EXCEPT ![tab].pc = "email"]
    /\ UNCHANGED <<users, nextId, outbox, signUpFrame>>

\* const hashedPassword = await bcrypt.hash(validatedData.password, 12)
SignUpHash(tab) ==
    /\ signup[tab].pc = "hash"
    /\ signup' = [signup EXCEPT ![tab].pc = "create"]
    /\ UNCHANGED <<users, nextId, outbox, signUpFrame>>

\* const user = await prisma.user.create(...): the insert is checked against the
\* unique index on email and throws when it is violated.
SignUpCreate(tab) ==
    LET s == signup[tab]
        row == UserRow(FreshId("users"), s.email)
    IN  /\ s.pc = "create"
        /\ IF UserCreateOk(users, s.email)
           THEN \* the model hands out at most MaxUser user ids
                /\ nextId["users"] < MaxUser
                /\ users' = users \cup {row}
                /\ Allocate("users")
                /\ signup' = [signup EXCEPT ![tab] = [s EXCEPT !.pc = "email", !.user = row.id]]
           ELSE /\ UNCHANGED <<users, nextId>>
                /\ signup' = [signup EXCEPT ![tab] =
                        [s EXCEPT !.pc = "threw", !.error = "Unique constraint failed"]]
        /\ UNCHANGED <<outbox, signUpFrame>>

\* await EmailService.sendVerificationEmail(user): the mail service delivers or throws.
SignUpEmail(tab, delivered) ==
    LET s == signup[tab]
    IN  /\ s.pc = "email"
        /\ IF delivered
           THEN /\ outbox' = outbox \cup {s.user}
                /\ signup' = [signup EXCEPT ![tab].pc = "returned"]
           ELSE /\ UNCHANGED outbox
                /\ signup' = [signup EXCEPT ![tab] =
                        [s EXCEPT !.pc = "threw", !.error = "Email failed"]]
        /\ UNCHANGED <<users, nextId, signUpFrame>>

\* The caller has the user or the error; the tab may call again.
SignUpEnd(tab) ==
    /\ signup[tab].pc \in {"returned", "threw"}
    /\ signup' = [signup EXCEPT ![tab] = IdleSignUp]
    /\ UNCHANGED <<users, nextId, outbox, signUpFrame>>

NextSignUp ==
    \/ \E tab \in Tabs, email \in Emails, wellFormed \in BOOLEAN :
          SignUpCall(tab, email, wellFormed)
    \/ \E tab \in Tabs : SignUpLookup(tab)
    \/ \E tab \in Tabs : SignUpHash(tab)
    \/ \E tab \in Tabs : SignUpCreate(tab)
    \/ \E tab \in Tabs, delivered \in BOOLEAN : SignUpEmail(tab, delivered)
    \/ \E tab \in Tabs : SignUpEnd(tab)

SpecSignUp == InitDb /\ [][NextSignUp]_vars

\* ------------------------------------------------------------------ claims: sign-up
\* C11: no two users share an email address in any reachable state, and a signUp
\* whose lookup finds its email taken throws 'User already exists' in that step,
\* after which the call has created no user and sent no verification email.
SignUpKeepsEmailsUnique ==
    /\ [](\A u1 \in users, u2 \in users : u1.email = u2.email => u1 = u2)
    /\ [][\A tab \in Tabs :
            (/\ signup[tab].pc = "lookup"
             /\ signup'[tab].pc # "lookup"
             /\ \E u \in users : u.email = signup[tab].email) =>
                /\ signup'[tab].pc = "threw"
                /\ signup'[tab].error = "User already exists"
                /\ signup'[tab].user = 0
                /\ users' = users
                /\ outbox' = outbox]_vars

\* C11 witness: two signUp calls with one email ran interleaved; both passed the
\* lookup, one created the user and the insert of the other was refused.
InterleavedSignUpWitness ==
    \E t1 \in Tabs, t2 \in Tabs :
        /\ t1 # t2
        /\ signup[t1].email = signup[t2].email
        /\ signup[t1].pc = "returned"
        /\ signup[t2].pc = "threw"
        /\ signup[t2].error = "Unique constraint failed"
        /\ Cardinality(findUniqueByEmail(users, signup[t1].email)) = 1

\* C13: a request that ended in an error carries exactly one error and has left the
\* persisted state as it was: no user it created is in the users table.
FailedSignUpLeavesNoUser ==
    \A tab \in Tabs :
        signup[tab].pc = "threw" =>
            /\ signup[tab].error # "none"
            /\ signup[tab].user \notin Ids(users)

\* ------------------------------------------------------------------ authorization middleware
Roles == {"guest", "host", "admin"}

\* session.user: a user id and its role, which the session may not carry.
SessionUsers == [id : UserIds, role : Roles \cup {"undefined"}]

\* res.status(code).json({ error })
jsonError(code, error) == [status |-> code, body |-> [error |-> error]]

\* What the wrapped handler answers.
handlerResponse == okResponse("handled")

\* Faulty variant: the wrapper without its session check.
hasSessionAlways(session) == TRUE

\* if (!session)
hasSession(session) == session # NoUser

\* A request reaches the wrapper returned by withAuth(handler); the wrapper awaits
\* getServerSession(req, res, authOptions), which resolves to the session or null.
AuthRequest(tab, session) ==
    /\ authReq[tab].pc = "idle"
    /\ authReq' = [authReq EXCEPT ![tab] = [IdleAuth EXCEPT !.pc = "session",
                                                           !.session = session]]
    /\ UNCHANGED <<roleReq, middlewareFrame>>

\* The session has resolved: 401 without one, otherwise req.user = session.user and
\* the wrapped handler is invoked.
AuthCheck(tab) ==
    LET q == authReq[tab]
    IN  /\ q.pc = "session"
        /\ authReq' = [authReq EXCEPT ![tab] =
                IF ~hasSession(q.session)
                THEN [q EXCEPT !.pc = "done", !.response = jsonError(401, "Unauthorized")]
                ELSE [q EXCEPT !.pc = "handler", !.user = q.session, !.calls = @ + 1]]
        /\ UNCHANGED <<roleReq, middlewareFrame>>

\* The wrapped handler answers.
AuthHandler(tab) ==
    /\ authReq[tab].pc = "handler"
    /\ authReq' = [authReq EXCEPT ![tab].pc = "done", ![tab].response = handlerResponse]
    /\ UNCHANGED <<roleReq, middlewareFrame>>

AuthEnd(tab) ==
    /\ authReq[tab].pc = "done"
    /\ authReq' = [authReq EXCEPT ![tab] = IdleAuth]
    /\ UNCHANGED <<roleReq, middlewareFrame>>

\* Faulty variant: the check tests only that req.user is set.
forbiddenWithoutUser(roles, user) == user = NoUser

\* !user || !roles.includes(user.role)
forbidden(roles, user) == user = NoUser \/ user.role \notin roles

\* A request reaches the wrapper returned by withRole(roles)(handler) with req.user
\* as the earlier middleware left it; the wrapper has no await before its check.
RoleRequest(tab, roles, user) ==
    /\ roleReq[tab].pc = "idle"
    /\ roleReq' = [roleReq EXCEPT ![tab] =
            IF forbidden(roles, user)
            THEN [pc |-> "done", roles |-> roles, user |-> user, calls |-> 0,
                  response |-> jsonError(403, "Forbidden")]
            ELSE [pc |-> "handler", roles |-> roles, user |-> user, calls |-> 1,
                  response |-> NoResponse]]
    /\ UNCHANGED <<authReq, middlewareFrame>>

RoleHandler(tab) ==
    /\ roleReq[tab].pc = "handler"
    /\ roleReq' = [roleReq EXCEPT ![tab].pc = "done", ![tab].response = handlerResponse]
    /\ UNCHANGED <<authReq, middlewareFrame>>

RoleEnd(tab) ==
    /\ roleReq[tab].pc = "done"
    /\ roleReq' = [roleReq EXCEPT ![tab] = IdleRole]
    /\ UNCHANGED <<authReq, middlewareFrame>>

NextWithAuth ==
    \/ \E tab \in Tabs, session \in SessionUsers \cup {NoUser} : AuthRequest(tab, session)
    \/ \E tab \in Tabs : AuthCheck(tab)
    \/ \E tab \in Tabs : AuthHandler(tab)
    \/ \E tab \in Tabs : AuthEnd(tab)

SpecWithAuth == InitMarket /\ [][NextWithAuth]_vars

\* The role lists the routes are wrapped with.
RoleLists == {{}, {"admin"}, {"host", "admin"}}

NextWithRole ==
    \/ \E tab \in Tabs, roles \in RoleLists, user \in SessionUsers \cup {NoUser} :
          RoleRequest(tab, roles, user)
    \/ \E tab \in Tabs : RoleHandler(tab)
    \/ \E tab \in Tabs : RoleEnd(tab)

SpecWithRole == InitMarket /\ [][NextWithRole]_vars

\* ------------------------------------------------------------------ claims: envelope and middleware
\* { success: boolean, data?: T, error?: string } with data on success and an error,
\* and no data, on failure.
IsEnvelope(body) ==
    /\ "success" \in DOMAIN body
    /\ body.success => ("data" \in DOMAIN body /\ "error" \notin DOMAIN body)
    /\ ~body.success => ("error" \in DOMAIN body /\ "data" \notin DOMAIN body)

\* C12: every response that is sent follows the uniform envelope: success = true
\* with data, or success = false with an error and no data; never success = true
\* together with an error.
EveryResponseIsEnvelope ==
    \A tab \in Tabs :
        authReq[tab].pc = "done" => IsEnvelope(authReq[tab].response.body)

\* C14: the handler wrapped with withAuth is invoked at most once per request and
\* only with a session, with req.user set to the session's user; a request without
\* a session ends with 401 'Unauthorized' and no invocation.
WithAuthGuardsHandler ==
    \A tab \in Tabs :
        LET q == authReq[tab]
        IN  /\ q.calls \in {0, 1}
            /\ q.calls = 1 => (q.session # NoUser /\ q.user = q.session)
            /\ q.pc = "handler" => q.calls = 1
            /\ (q.pc = "done" /\ q.session = NoUser) =>
                  /\ q.calls = 0
                  /\ q.response.status = 401
                  /\ q.response.body.error = "Unauthorized"
            /\ (q.pc = "done" /\ q.session # NoUser) =>
                  /\ q.calls = 1
                  /\ q.response = handlerResponse

\* C14 witness: one request without a session was answered 401, another with a
\* session was handled.
WithAuthWitness ==
    \E t1 \in Tabs, t2 \in Tabs :
        /\ authReq[t1].pc = "done" /\ authReq[t1].session = NoUser
        /\ authReq[t1].response.status = 401
        /\ authReq[t2].pc = "done" /\ authReq[t2].calls = 1
        /\ authReq[t2].user \in SessionUsers

\* C15: the handler wrapped with withRole(roles) is invoked exactly when req.user is
\* set and its role is one of roles; every other request ends with 403 'Forbidden'
\* and no invocation.
WithRoleGuardsHandler ==
    \A tab \in Tabs :
        LET q == roleReq[tab]
            allowed == q.user # NoUser /\ q.user.role \in q.roles
        IN  q.pc # "idle" =>
                /\ q.calls = (IF allowed THEN 1 ELSE 0)
                /\ ~allowed =>
                      /\ q.pc = "done"
                      /\ q.response.status = 403
                      /\ q.response.body.error = "Forbidden"
                /\ (allowed /\ q.pc = "done") => q.response = handlerResponse

\* C15 witness: a request without req.user and a request of a user whose role is
\* not listed were both answered 403.
WithRoleWitness ==
    \E t1 \in Tabs, t2 \in Tabs :
        /\ roleReq[t1].pc = "done" /\ roleReq[t1].user = NoUser
        /\ roleReq[t1].response.status = 403
        /\ roleReq[t2].pc = "done" /\ roleReq[t2].user # NoUser
        /\ roleReq[t2].user.role \in Roles \ roleReq[t2].roles
        /\ roleReq[t2].response.status = 403

\* ------------------------------------------------------------------ input validation
TitleMin == 1
TitleMax == 100
DescriptionMin == 10
DescriptionMax == 1000
CountMin == 1
RoomCountMax == 20
BathroomCountMax == 10
GuestCountMax == 50
PriceMax == 10000
ImageSrcMax == 10

Categories == {"house", "apartment", "hotel", "unique"}

\* z.string().min(lo).max(hi) on a string of the given length
zString(len, lo, hi) == len >= lo /\ len <= hi

\* z.number().int().min(lo).max(hi) on a number given in halves
zInt(halves, lo, hi) == halves % 2 = 0 /\ halves >= 2 * lo /\ halves <= 2 * hi

\* createListingSchema: the fields of the body that violate it.
createListingIssues(body) ==
    {f \in {"title", "description", "category", "roomCount", "bathroomCount",
            "guestCount", "locationValue", "price", "imageSrc", "amenities"} :
        CASE f = "title" -> ~zString(body.title, TitleMin, TitleMax)
          [] f = "description" -> ~zString(body.description, DescriptionMin, DescriptionMax)
          [] f = "category" -> body.category \notin Categories
          [] f = "roomCount" -> ~zInt(body.roomCount, CountMin, RoomCountMax)
          [] f = "bathroomCount" -> ~zInt(body.bathroomCount, CountMin, BathroomCountMax)
          [] f = "guestCount" -> ~zInt(body.guestCount, CountMin, GuestCountMax)
          [] f = "locationValue" -> body.locationValue < 1
          [] f = "price" -> ~zInt(body.price, CountMin, PriceMax)
          [] f = "imageSrc" -> ~(/\ body.imageSrc.urls
                                 /\ body.imageSrc.count >= 1
                                 /\ body.imageSrc.count <= ImageSrcMax)
          [] f = "amenities" -> body.amenities = "other"}

\* The try block: await req.json() throws on an unreadable body, schema.parse
\* throws a ZodError carrying the issues.
tryParse(readable, body) ==
    IF ~readable THEN [exception |-> "SyntaxError", errors |-> {}]
    ELSE IF createListingIssues(body) # {}
    THEN [exception |-> "ZodError", errors |-> createListingIssues(body)]
    ELSE [exception |-> "none", errors |-> {}]

\* Faulty variant: a catch block that handles the ZodError and rethrows the rest.
catchBlockRethrows(attempt) ==
    IF attempt.exception = "ZodError"
    THEN [threw |-> FALSE,
          result |-> [success |-> FALSE, error |-> "Validation failed",
                      details |-> attempt.errors]]
    ELSE [threw |-> TRUE, result |-> NoResult]

\* The catch block.
catchBlock(attempt) ==
    IF attempt.exception = "ZodError"
    THEN [threw |-> FALSE,
          result |-> [success |-> FALSE, error |-> "Validation failed",
                      details |-> attempt.errors]]
    ELSE [threw |-> FALSE, result |-> [success |-> FALSE, error |-> "Invalid request"]]

validateRequest(readable, body) ==
    LET attempt == tryParse(readable, body)
    IN  IF attempt.exception = "none"
        THEN [threw |-> FALSE, result |-> successResponse(body)]
        ELSE catchBlock(attempt)

\* The request bodies tried: each field below, at and above its limits.
Bodies ==
    [title : {-1, 0, TitleMax, TitleMax + 1},
     description : {DescriptionMin - 1, DescriptionMin, DescriptionMax + 1},
     category : {"house", "castle"},
     roomCount : {0, 2 * CountMin, 2 * CountMin + 1, 2 * RoomCountMax, 2 * RoomCountMax + 2},
     bathroomCount : {2 * CountMin, 2 * BathroomCountMax + 2},
     guestCount : {0, 2 * GuestCountMax},
     locationValue : {0, 1},
     price : {0, 2 * CountMin, 2 * PriceMax - 1, 2 * PriceMax + 2},
     imageSrc : [count : {0, ImageSrcMax, ImageSrcMax + 1}, urls : BOOLEAN],
     amenities : {"absent", "cuids", "other"}]

\* A request arrives at the validator.
InitValidate ==
    /\ users = {}
    /\ listings = {}
    /\ reservations = {}
    /\ reviews = {}
    /\ payments = {}
    /\ nextId = [t \in Tables |-> 0]
    /\ booking = [c \in Clients |-> IdleBooking]
    /\ reviewReq = [tab \in Tabs |-> IdleReview]
    /\ signup = [tab \in Tabs |-> IdleSignUp]
    /\ outbox = {}
    /\ authReq = [tab \in Tabs |-> IdleAuth]
    /\ roleReq = [tab \in Tabs |-> IdleRole]
    /\ redis = [key \in CacheKeys |-> NoEntry]
    /\ cacheReq = [tab \in Tabs |-> IdleCache]
    /\ store = [tab \in Tabs |-> InitialStore]
    /\ PageIdle
    /\ \/ validation = [IdleValidation EXCEPT !.pc = "input"]
       \/ \E body \in Bodies :
             validation = [IdleValidation EXCEPT !.pc = "input", !.readable = TRUE,
                                                 !.body = body]

\* validateRequest(createListingSchema)(req)
ValidateRequest ==
    /\ validation.pc = "input"
    /\ validation' = [validation EXCEPT
            !.pc = "done",
            !.threw = validateRequest(validation.readable, validation.body).threw,
            !.result = validateRequest(validation.readable, validation.body).result]
    /\ UNCHANGED validationFrame

NextValidate == ValidateRequest

SpecValidate == InitValidate /\ [][NextValidate]_vars

\* C16: validateRequest never throws. Its result has success = TRUE, with the
\* parsed body as data, exactly when the body is readable JSON that satisfies
\* the schema; a readable body that violates the schema gives 'Validation
\* failed' with the issues as details; an unreadable body gives 'Invalid request'.
ValidateRequestNeverThrows ==
    validation.pc = "done" =>
        LET readable == validation.readable
            body == validation.body
            result == validation.result
            satisfies == createListingIssues(body) = {}
        IN  /\ ~validation.threw
            /\ result.success <=> (readable /\ satisfies)
            /\ result.success => result = [success |-> TRUE, data |-> body]
            /\ (readable /\ ~satisfies) =>
                    result = [success |-> FALSE, error |-> "Validation failed",
                              details |-> createListingIssues(body)]
            /\ ~readable => result = [success |-> FALSE, error |-> "Invalid request"]

\* All three outcomes are distinguished by the request alone: here a readable
\* body whose only issue is a price that is not an integer has been refused.
ValidationFailedWitness ==
    /\ validation.pc = "done"
    /\ validation.readable
    /\ ~validation.result.success
    /\ validation.result.error = "Validation failed"
    /\ validation.result.details = {"price"}
    /\ validation.body.price = 2 * PriceMax - 1

\* ------------------------------------------------------------------ getCachedListings
CacheTtl == 300

\* The seconds one step of the clock takes.
TickSeconds == 100

\* redis.get(key): the value under the key, if it has not expired.
redisGet(entries, key) == entries[key]

\* Faulty variant: SET without an expiry.
redisSetNoExpiry(entries, key, seconds, value) ==
    [entries EXCEPT ![key] = [present |-> TRUE, value |-> value, ttl |-> 0]]

\* redis.setex(key, seconds, value)
redisSetex(entries, key, seconds, value) ==
    [entries EXCEPT ![key] = [present |-> TRUE, value |-> value, ttl |-> seconds]]

\* redis drops a key when its time to live has run out.
redisExpire(entries, seconds) ==
    [key \in DOMAIN entries |->
        IF entries[key].present /\ entries[key].ttl > seconds
        THEN [entries[key] EXCEPT !.ttl = @ - seconds]
        ELSE NoEntry]

\* getListingsFromDatabase()
getListingsFromDatabase == listings

\* getCachedListings(key) is called.
CachedCall(tab, key) ==
    /\ cacheReq[tab].pc = "idle"
    /\ cacheReq' = [cacheReq EXCEPT ![tab] = [IdleCache EXCEPT !.pc = "get", !.key = key]]
    /\ UNCHANGED <<redis, cacheFrame>>

\* const cached = await redis.get(key); if (cached) return JSON.parse(cached);
CacheGet(tab) ==
    LET cached == redisGet(redis, cacheReq[tab].key)
    IN  /\ cacheReq[tab].pc = "get"
        /\ cacheReq' = [cacheReq EXCEPT ![tab] =
                IF cached.present
                THEN [@ EXCEPT !.pc = "returned", !.data = cached.value, !.hit = TRUE]
                ELSE [@ EXCEPT !.pc = "query"]]
        /\ UNCHANGED <<redis, cacheFrame>>

\* const data = await getListingsFromDatabase();
CacheQuery(tab) ==
    /\ cacheReq[tab].pc = "query"
    /\ cacheReq' = [cacheReq EXCEPT ![tab] =
            [@ EXCEPT !.pc = "setex", !.data = getListingsFromDatabase]]
    /\ UNCHANGED <<redis, cacheFrame>>

\* await redis.setex(key, 300, JSON.stringify(data)); return data;
CacheSetex(tab) ==
    /\ cacheReq[tab].pc = "setex"
    /\ redis' = redisSetex(redis, cacheReq[tab].key, CacheTtl, cacheReq[tab].data)
    /\ cacheReq' = [cacheReq EXCEPT ![tab] = [@ EXCEPT !.pc = "returned"]]
    /\ UNCHANGED cacheFrame

\* The caller has its answer; the tab is free for the next call.
CacheEnd(tab) ==
    /\ cacheReq[tab].pc = "returned"
    /\ cacheReq' = [cacheReq EXCEPT ![tab] = IdleCache]
    /\ UNCHANGED <<redis, cacheFrame>>

\* Time passes.
Tick ==
    /\ \E key \in CacheKeys : redis[key].present
    /\ redis' = redisExpire(redis, TickSeconds)
    /\ UNCHANGED <<cacheReq, cacheFrame>>

\* The hosts are signed up; no listing yet.
InitCache ==
    /\ users = {UserRow(u, u) : u \in UserIds}
    /\ listings = {}
    /\ reservations = {}
    /\ reviews = {}
    /\ payments = {}
    /\ nextId = [t \in Tables |-> IF t = "users" THEN MaxUser ELSE 0]
    /\ NoRequests

NextCache ==
    \/ \E u \in UserIds : ListingCreate(u)
    \/ \E l \in ListingIds : ListingDelete(l)
    \/ \E tab \in Tabs, key \in CacheKeys : CachedCall(tab, key)
    \/ \E tab \in Tabs : CacheGet(tab)
    \/ \E tab \in Tabs : CacheQuery(tab)
    \/ \E tab \in Tabs : CacheSetex(tab)
    \/ \E tab \in Tabs : CacheEnd(tab)
    \/ Tick

SpecCache == InitCache /\ [][NextCache]_vars

\* C17 as stated: a listings read returns the listings as currently persisted,
\* also when it goes through getCachedListings: whenever a call learns its
\* answer (from redis or from the database), the answer is the listings table.
ReadsReturnPersistedListings ==
    [][\A tab \in Tabs :
        (/\ cacheReq[tab].pc \in {"get", "query"}
         /\ cacheReq'[tab].pc \in {"returned", "setex"}) =>
            cacheReq'[tab].data = listings]_vars

\* C17, amended: getCachedListings keeps the listings it read under its key for
\* 300 seconds and no write to the listings table touches redis. A call that
\* finds its key returns the stored value without reading the database, so it
\* may return listings older than the persisted ones; a call that does not find
\* it returns the listings it reads from the database and stores them with a
\* time to live of 300 seconds; no entry outlives its time to live.
CachedReadsLagAtMostTtl ==
    /\ [](\A key \in CacheKeys :
            redis[key].present => redis[key].ttl > 0 /\ redis[key].ttl <= CacheTtl)
    /\ [][listings' # listings => redis' = redis]_vars
    /\ [][\A tab \in Tabs :
            /\ (cacheReq[tab].pc = "get" /\ cacheReq'[tab].pc # "get") =>
                  IF redis[cacheReq[tab].key].present
                  THEN /\ cacheReq'[tab].pc = "returned"
                       /\ cacheReq'[tab].data = redis[cacheReq[tab].key].value
                       /\ redis' = redis
                  ELSE /\ cacheReq'[tab].pc = "query"
                       /\ redis' = redis
            /\ (cacheReq[tab].pc = "query" /\ cacheReq'[tab].pc # "query") =>
                  cacheReq'[tab].data = listings
            /\ (cacheReq[tab].pc = "setex" /\ cacheReq'[tab].pc # "setex") =>
                  /\ cacheReq'[tab].pc = "returned"
                  /\ cacheReq'[tab].data = cacheReq[tab].data
                  /\ redis'[cacheReq[tab].key] =
                        [present |-> TRUE, value |-> cacheReq[tab].data, ttl |-> CacheTtl]]_vars

\* A call served from redis has returned a listing that has since been deleted,
\* while the entry still has time to live.
StaleReadWitness ==
    \E tab \in Tabs :
        /\ cacheReq[tab].pc = "returned"
        /\ cacheReq[tab].hit
        /\ cacheReq[tab].data # {}
        /\ listings = {}
        /\ redis[cacheReq[tab].key].present
        /\ redis[cacheReq[tab].key].ttl < CacheTtl

\* ------------------------------------------------------------------ useAppStore favorites
Range(seq) == {seq[i] : i \in DOMAIN seq}

\* Faulty variant: an add that appends whether or not the listing is a favorite.
addFavoriteAlways(favs, listingId) == Append(favs, listingId)

\* The favorites after addToFavorites(listingId): a favorite is not added twice.
addFavorite(favs, listingId) ==
    IF listingId \in Range(favs) THEN favs ELSE Append(favs, listingId)

\* The favorites after removeFromFavorites(listingId).
removeFavorite(favs, listingId) == SelectSeq(favs, LAMBDA id : id # listingId)

addToFavorites(tab, listingId) ==
    /\ store' = [store EXCEPT ![tab] =
            [@ EXCEPT !.favorites = addFavorite(store[tab].favorites, listingId),
                      !.call = [action |-> "addToFavorites", listingId |-> listingId]]]
    /\ UNCHANGED storeFrame

removeFromFavorites(tab, listingId) ==
    /\ store' = [store EXCEPT ![tab] =
            [@ EXCEPT !.favorites = removeFavorite(store[tab].favorites, listingId),
                      !.call = [action |-> "removeFromFavorites", listingId |-> listingId]]]
    /\ UNCHANGED storeFrame

NextStore ==
    \/ \E tab \in Tabs, l \in ListingIds : addToFavorites(tab, l)
    \/ \E tab \in Tabs, l \in ListingIds : removeFromFavorites(tab, l)

SpecStore == InitMarket /\ [][NextStore]_vars

\* C18: favorites behave as a set: no listing identifier occurs twice in
\* favorites, an addToFavorites of an identifier already present leaves favorites
\* as they were (one not present makes it a favorite and keeps the others), and
\* after removeFromFavorites the identifier does not occur (and the others stay).
FavoritesBehaveAsSet ==
    /\ [](\A tab \in Tabs : \A i, j \in DOMAIN store[tab].favorites :
            store[tab].favorites[i] = store[tab].favorites[j] => i = j)
    /\ [][\A tab \in Tabs :
            LET before == store[tab].favorites
                after == store'[tab].favorites
                id == store'[tab].call.listingId
            IN  store'[tab] # store[tab] =>
                  /\ (store'[tab].call.action = "addToFavorites" /\ id \in Range(before)) =>
                        after = before
                  /\ store'[tab].call.action = "addToFavorites" =>
                        Range(after) = Range(before) \cup {id}
                  /\ store'[tab].call.action = "removeFromFavorites" =>
                        Range(after) = Range(before) \ {id}]_vars

\* A listing was made a favorite, then added again, and is a favorite once; in
\* the other tab a favorite has been removed again.
FavoriteAddedTwiceWitness ==
    \E t1, t2 \in Tabs, l \in ListingIds :
        /\ t1 # t2
        /\ store[t1].call = [action |-> "addToFavorites", listingId |-> l]
        /\ Len(store[t1].favorites) = MaxListing
        /\ store[t1].favorites[1] = l
        /\ store[t2].call = [action |-> "removeFromFavorites", listingId |-> l]
        /\ Len(store[t2].favorites) = 1

\* ------------------------------------------------------------------ booking in one transaction
\* The availability check and the insert as one serializable transaction: no
\* other statement runs between the read query and the insert.
BookingTransaction(c) ==
    LET b == booking[c]
        answer == CheckAvailability(reservations, b.listingId, b.startDate, b.endDate)
        row == ReservationRow(FreshId("reservations"), c, b.listingId, b.startDate, b.endDate)
    IN  /\ b.pc = "check"
        \* the model hands out at most MaxReservation reservation ids
        /\ answer = "available" => nextId["reservations"] < MaxReservation
        /\ IF answer = "conflicting"
           THEN /\ UNCHANGED <<reservations, nextId>>
                /\ booking' = [booking EXCEPT ![c] =
                        [b EXCEPT !.pc = "done",
                                  !.response = errorResponse("Dates not available", 409)]]
           ELSE IF ReservationCreateOk(reservations, users, listings, row)
           THEN /\ reservations' = reservations \cup {row}
                /\ Allocate("reservations")
                /\ booking' = [booking EXCEPT ![c] =
                        [b EXCEPT !.pc = "done", !.response = okResponse(row.id)]]
           ELSE /\ UNCHANGED <<reservations, nextId>>
                /\ booking' = [booking EXCEPT ![c] =
                        [b EXCEPT !.pc = "done",
                                  !.response = errorResponse("Could not create reservation", 500)]]
        /\ UNCHANGED <<users, listings, reviews, payments, reviewReq, auxVars>>

NextBookingAtomic ==
    \/ \E c \in Clients, l \in ListingIds, s \in Days, e \in Days : BookingPost(c, l, s, e)
    \/ \E c \in Clients : BookingTransaction(c)
    \/ \E c \in Clients : BookingRespond(c)
    \/ \E r \in ReservationIds : ReservationCancel(r)
    \/ \E r \in ReservationIds : ReservationConfirm(r)
    \/ \E r \in ReservationIds : ReservationComplete(r)

SpecBookingAtomic == InitMarket /\ [][NextBookingAtomic]_vars

\* C19: when the availability check and the insert are one atomic step, then
\* under every interleaving of the booking requests no two reservations of one
\* listing that are both not cancelled have a night in common.
AtomicBookingNeverOverlaps ==
    \A r1 \in reservations, r2 \in reservations :
        (/\ r1.id # r2.id
         /\ r1.listingId = r2.listingId
         /\ r1.status # "CANCELLED"
         /\ r2.status # "CANCELLED") =>
            \A d \in Days : ~(/\ r1.startDate <= d /\ d < r1.endDate
                              /\ r2.startDate <= d /\ d < r2.endDate)

\* Two clients asked for overlapping stays of one listing at the same time: one
\* holds the reservation, the other was refused.
AtomicRaceClosedWitness ==
    \E c1 \in Clients, c2 \in Clients :
        /\ c1 # c2
        /\ booking[c1].pc = "done"
        /\ booking[c2].pc = "done"
        /\ booking[c1].listingId = booking[c2].listingId
        /\ booking[c1].startDate = 0 /\ booking[c1].endDate = MaxDay
        /\ booking[c2].startDate = 1 /\ booking[c2].endDate = MaxDay
        /\ booking[c1].response.status = 200
        /\ booking[c2].response.status = 409
        /\ \E r \in reservations :
              /\ r.id = booking[c1].response.body.data
              /\ r.userId = c1
              /\ r.status = "PENDING"

\* ------------------------------------------------------------------ reservation status
\* prisma.reservation.update({ data: { status } }): the column takes the values
\* of enum ReservationStatus.
ReservationUpdateStatus(reservationId, status) ==
    /\ status \in ReservationStatus
    /\ \E r \in reservations :
          /\ r.id = reservationId
          /\ r.status # status
          /\ reservations' = (reservations \ {r}) \cup {[r EXCEPT !.status = status]}
    /\ UNCHANGED <<users, listings, reviews, payments, nextId, booking, reviewReq, auxVars>>

NextReservationStatus ==
    \/ \E u \in UserIds, l \in ListingIds, s \in Days, e \in Days :
          ReservationCreate(u, l, s, e)
    \/ \E r \in ReservationIds, status \in ReservationStatus :
          ReservationUpdateStatus(r, status)
    \/ \E r \in ReservationIds : ReservationDelete(r)

SpecReservationStatus == InitMarket /\ [][NextReservationStatus]_vars

\* C20: in every reachable state every reservation's status is one of PENDING,
\* CONFIRMED, CANCELLED, COMPLETED, and a reservation created without a status
\* (a row whose id was not there before) starts as PENDING.
ReservationStatusInEnum ==
    /\ [](\A r \in reservations :
            r.status \in {"PENDING", "CONFIRMED", "CANCELLED", "COMPLETED"})
    /\ [][\A r \in reservations' :
            r.id \notin Ids(reservations) => r.status = "PENDING"]_vars

\* A reservation has been moved to COMPLETED and a later one has just been
\* created beside it.
ReservationStatusWitness ==
    \E r1 \in reservations, r2 \in reservations :
        /\ r1.id = 1
        /\ r1.status = "COMPLETED"
        /\ r2.id = MaxReservation
        /\ r2.id # r1.id
        /\ r2.status = "PENDING"

\* ------------------------------------------------------------------ getListingsWithFilters
PageSize == 20

\* The listings table holds up to PageSize + MaxOverflow rows.
MaxOverflow == 2

SearchCategories == <<"house", "hotel", "unique">>
SearchLocations == <<"FR", "US">>
SearchAmenities == <<{}, {"wifi"}, {"pool"}, {"wifi", "pool"}>>

\* Row id of the listings table: rows differ in every filtered column, and two
\* rows in a row were created at the same instant.
SearchRow(id) ==
    [id |-> id,
     category |-> SearchCategories[(id % 3) + 1],
     locationValue |-> SearchLocations[((id \div 3) % 2) + 1],
     price |-> (id % 5) + 1,
     amenities |-> SearchAmenities[((id \div 2) % 4) + 1],
     createdAt |-> id \div 2]

SearchTable(size) == {SearchRow(id) : id \in 1..size}

\* x && {...}: undefined and the empty string are falsy.
truthy(str) == str # "undefined" /\ str # ""

\* The where clause: one condition per filter that is given.
where(filters, row) ==
    /\ truthy(filters.category) => row.category = filters.category
    /\ truthy(filters.location) => row.locationValue = filters.location
    /\ filters.priceRange.given =>
          row.price >= filters.priceRange.min /\ row.price <= filters.priceRange.max
    /\ filters.amenities.given => row.amenities \cap filters.amenities.ids # {}

\* orderBy: { createdAt: 'desc' }; the order of rows created at the same instant
\* is the database's choice.
before(a, b, tieAscending) ==
    \/ a.createdAt > b.createdAt
    \/ a.createdAt = b.createdAt /\ (IF tieAscending THEN a.id < b.id ELSE a.id > b.id)

RECURSIVE orderBy(_, _)
orderBy(rows, tieAscending) ==
    IF rows = {} THEN << >>
    ELSE LET first == CHOOSE a \in rows :
                          \A b \in rows \ {a} : before(a, b, tieAscending)
         IN  <<first>> \o orderBy(rows \ {first}, tieAscending)

\* Faulty variant: the page number taken as the number of pages to skip.
skipPages(page) == IF page.given /\ page.n # 0 THEN page.n * PageSize ELSE 0

\* skip: filters.page ? (filters.page - 1) * 20 : 0
skip(page) == IF page.given /\ page.n # 0 THEN (page.n - 1) * PageSize ELSE 0

\* take and skip on the ordered rows.
takeSkip(seq, n, from) ==
    IF from >= Len(seq) THEN << >>
    ELSE SubSeq(seq, from + 1, IF from + n < Len(seq) THEN from + n ELSE Len(seq))

getListingsWithFilters(table, filters, tieAscending) ==
    takeSkip(orderBy({row \in table : where(filters, row)}, tieAscending),
             PageSize, skip(filters.page))

\* The filters tried.
SearchFilters ==
    [category : {"undefined", "", "house", "hotel"},
     location : {"undefined", "US"},
     priceRange : {NoFilters.priceRange, [given |-> TRUE, min |-> 2, max |-> 4],
                   [given |-> TRUE, min |-> 1, max |-> 5]},
     amenities : {NoFilters.amenities, [given |-> TRUE, ids |-> {}],
                  [given |-> TRUE, ids |-> {"wifi"}],
                  [given |-> TRUE, ids |-> {"wifi", "pool"}]},
     page : {NoFilters.page} \cup {[given |-> TRUE, n |-> n] : n \in 0..3}]

\* A search arrives over a table of some size.
InitSearch ==
    /\ users = {}
    /\ listings = {}
    /\ reservations = {}
    /\ reviews = {}
    /\ payments = {}
    /\ nextId = [t \in Tables |-> 0]
    /\ booking = [c \in Clients |-> IdleBooking]
    /\ reviewReq = [tab \in Tabs |-> IdleReview]
    /\ signup = [tab \in Tabs |-> IdleSignUp]
    /\ outbox = {}
    /\ authReq = [tab \in Tabs |-> IdleAuth]
    /\ roleReq = [tab \in Tabs |-> IdleRole]
    /\ validation = IdleValidation
    /\ redis = [key \in CacheKeys |-> NoEntry]
    /\ cacheReq = [tab \in Tabs |-> IdleCache]
    /\ store = [tab \in Tabs |-> InitialStore]
    /\ loginReq = [tab \in Tabs |-> IdleLogin]
    /\ dom = [el \in Elements |-> {}]
    /\ layoutScript = IdleScript
    /\ \E size \in 0..(PageSize + MaxOverflow), filters \in SearchFilters :
          search = [IdleSearch EXCEPT !.pc = "query", !.size = size, !.filters = filters]

\* prisma.listing.findMany(...) answers.
GetListingsWithFilters(tieAscending) ==
    /\ search.pc = "query"
    /\ search' = [search EXCEPT
            !.pc = "returned",
            !.tieAscending = tieAscending,
            !.result = getListingsWithFilters(SearchTable(search.size), search.filters,
                                              tieAscending)]
    /\ UNCHANGED searchFrame

NextSearch == \E tieAscending \in BOOLEAN : GetListingsWithFilters(tieAscending)

SpecSearch == InitSearch /\ [][NextSearch]_vars

\* C21: the result holds only listings that satisfy every filter given (category
\* and locationValue equal, price within the range, an amenity in the list) and
\* is not narrowed by an absent filter; it holds at most 20 listings, newest
\* first, each once; of the listings that satisfy the filters it leaves out the
\* (page - 1) * 20 newest (none for a missing page or page 0) and, after those,
\* none while it has room.
SearchReturnsFilteredPage ==
    search.pc = "returned" =>
        LET f == search.filters
            result == search.result
            matching == {row \in SearchTable(search.size) :
                /\ (f.category \notin {"undefined", ""} => row.category = f.category)
                /\ (f.location \notin {"undefined", ""} => row.locationValue = f.location)
                /\ (f.priceRange.given =>
                        f.priceRange.min <= row.price /\ row.price <= f.priceRange.max)
                /\ (f.amenities.given => \E a \in row.amenities : a \in f.amenities.ids)}
            skipped == IF f.page.given /\ f.page.n > 0 THEN (f.page.n - 1) * 20 ELSE 0
            left == Cardinality(matching) - skipped
        IN  /\ \A i \in DOMAIN result : result[i] \in matching
            /\ \A i, j \in DOMAIN result : i < j =>
                    /\ result[i] # result[j]
                    /\ result[i].createdAt >= result[j].createdAt
            /\ Len(result) <= 20
            /\ Len(result) = (IF left <= 0 THEN 0 ELSE IF left > 20 THEN 20 ELSE left)
            /\ Len(result) > 0 =>
                    /\ Cardinality({row \in matching :
                            row.createdAt > result[1].createdAt}) <= skipped
                    /\ Cardinality({row \in matching :
                            row.createdAt >= result[1].createdAt}) > skipped

\* The second page of a search by price over more than a page of matches: the
\* rows left after the 20 newest, the oldest rows of the table.
SecondPageWitness ==
    /\ search.pc = "returned"
    /\ search.size = PageSize + MaxOverflow
    /\ search.filters.priceRange = [given |-> TRUE, min |-> 1, max |-> 5]
    /\ search.filters.category = ""
    /\ ~search.filters.amenities.given
    /\ search.filters.page = [given |-> TRUE, n |-> 2]
    /\ Len(search.result) = MaxOverflow
    /\ search.result[Len(search.result)].createdAt = 0

\* ------------------------------------------------------------------ useAppStore user state
\* !!user: null (0) is falsy, a user is truthy.
isUser(user) == user # 0

\* setUser: (user) => set({ user, isAuthenticated: !!user })
setUser(tab, user) ==
    /\ store' = [store EXCEPT ![tab] =
            [@ EXCEPT !.user = user, !.isAuthenticated = isUser(user)]]
    /\ UNCHANGED <<loginReq, loginFrame>>

\* login(credentials) is called; the fetch is sent.
LoginCall(tab) ==
    /\ loginReq[tab].pc = "idle"
    /\ loginReq' = [loginReq EXCEPT ![tab] = [IdleLogin EXCEPT !.pc = "fetch"]]
    /\ UNCHANGED <<store, loginFrame>>

\* catch (error) { console.error('Login failed:', error); }: whether the error
\* caught goes on to the caller.
rethrown(threw) == FALSE

\* Faulty variant: a login that does not look at response.ok.
responseOkAlways(outcome) == TRUE

\* if (response.ok)
responseOk(outcome) == outcome = "ok"

\* await fetch('/api/auth/login', ...) settles: with an ok response, with another
\* response, or it rejects and the catch block logs the error.
LoginFetch(tab, outcome) ==
    /\ loginReq[tab].pc = "fetch"
    /\ outcome \in {"ok", "notOk", "threw"}
    /\ loginReq' = [loginReq EXCEPT ![tab] =
            [@ EXCEPT !.outcome = outcome,
                      !.rejected = rethrown(outcome = "threw"),
                      !.pc = IF outcome # "threw" /\ responseOk(outcome)
                             THEN "json" ELSE "returned"]]
    /\ UNCHANGED <<store, loginFrame>>

\* const { user } = await response.json(); set({ user, isAuthenticated: true,
\* isLoginModalOpen: false }); a body that does not parse rejects into the catch.
\* The body is whatever the server sent: user 0 is a body whose user member is
\* null or missing, as in the envelope { success, data } of successResponse.
LoginJson(tab, user, parses) ==
    /\ loginReq[tab].pc = "json"
    /\ IF parses
       THEN /\ loginReq' = [loginReq EXCEPT ![tab] =
                    [@ EXCEPT !.pc = "returned", !.user = user]]
            /\ store' = [store EXCEPT ![tab] =
                    [@ EXCEPT !.user = user, !.isAuthenticated = TRUE,
                              !.isLoginModalOpen = FALSE]]
       ELSE /\ loginReq' = [loginReq EXCEPT ![tab] =
                    [@ EXCEPT !.pc = "returned", !.outcome = "threw",
                              !.rejected = rethrown(TRUE)]]
            /\ UNCHANGED store
    /\ UNCHANGED loginFrame

\* The promise login returned has resolved; the tab may log in again.
LoginEnd(tab) ==
    /\ loginReq[tab].pc = "returned"
    /\ loginReq' = [loginReq EXCEPT ![tab] = IdleLogin]
    /\ UNCHANGED <<store, loginFrame>>

\* Every user signed up; in each tab the login modal is open or closed.
InitLogin ==
    /\ InitSearch!1 /\ InitSearch!2 /\ InitSearch!3 /\ InitSearch!4 /\ InitSearch!5
    /\ InitSearch!6 /\ InitSearch!7 /\ InitSearch!8 /\ InitSearch!9 /\ InitSearch!10
    /\ InitSearch!11 /\ InitSearch!12 /\ InitSearch!13 /\ InitSearch!14 /\ InitSearch!15
    /\ store \in [Tabs -> {[InitialStore EXCEPT !.isLoginModalOpen = open] :
                                open \in BOOLEAN}]
    /\ search = IdleSearch
    /\ loginReq = [tab \in Tabs |-> IdleLogin]
    /\ dom = [el \in Elements |-> {}]
    /\ layoutScript = IdleScript

NextLogin ==
    \/ \E tab \in Tabs, user \in UserIds \cup {0} : setUser(tab, user)
    \/ \E tab \in Tabs : LoginCall(tab)
    \/ \E tab \in Tabs, outcome \in {"ok", "notOk", "threw"} : LoginFetch(tab, outcome)
    \/ \E tab \in Tabs, user \in UserIds \cup {0}, parses \in BOOLEAN :
          LoginJson(tab, user, parses)
    \/ \E tab \in Tabs : LoginEnd(tab)

SpecLogin == InitLogin /\ [][NextLogin]_vars

\* C22: in every state reached by setUser and login calls, isAuthenticated is
\* true exactly when user is not null.
AuthenticatedIffUser ==
    \A tab \in Tabs : store[tab].isAuthenticated <=> store[tab].user # 0

\* C23: login changes the store only on success. A login that got a response that
\* is not ok, or whose fetch or body parse threw, leaves user, isAuthenticated and
\* isLoginModalOpen as they were at every step and resolves without an error; a
\* login that succeeds sets user to the user of the response body, isAuthenticated
\* = true and isLoginModalOpen = false in the one step in which it returns.
LoginChangesStateOnlyOnSuccess ==
    /\ [](\A tab \in Tabs : ~loginReq[tab].rejected)
    /\ [][\A tab \in Tabs :
            LET old == loginReq[tab]
                new == loginReq'[tab]
                kept == /\ store'[tab].user = store[tab].user
                        /\ store'[tab].isAuthenticated = store[tab].isAuthenticated
                        /\ store'[tab].isLoginModalOpen = store[tab].isLoginModalOpen
            IN  (new # old /\ old.pc # "idle" /\ new.pc # "idle") =>
                    IF new.pc = "returned" /\ new.outcome = "ok"
                    THEN /\ store'[tab].user = new.user
                         /\ store'[tab].isAuthenticated
                         /\ ~store'[tab].isLoginModalOpen
                    ELSE kept]_vars

\* With the modal open, one login was answered 401 and left the modal open and
\* nobody signed in; in the other tab a login succeeded and closed the modal.
LoginOutcomesWitness ==
    \E t1, t2 \in Tabs :
        /\ t1 # t2
        /\ loginReq[t1].pc = "returned" /\ loginReq[t1].outcome = "notOk"
        /\ store[t1].isLoginModalOpen /\ store[t1].user = 0
        /\ loginReq[t2].pc = "returned" /\ loginReq[t2].outcome = "ok"
        /\ ~store[t2].isLoginModalOpen /\ store[t2].user = loginReq[t2].user
        /\ store[t2].user = MaxUser
        /\ store[t2].isAuthenticated

\* C24: signUp takes its steps in one order: validation, lookup, hashing, create,
\* email, each either going on to the next or throwing (hashing always goes on).
\* A verification email goes only to a user whose record exists, and when the
\* email fails signUp throws while the user it created stays in the table.
SignUpStepsInOrder ==
    /\ [](outbox \subseteq Ids(users))
    /\ [](\A tab \in Tabs :
            (signup[tab].pc = "threw" /\ signup[tab].error = "Email failed") =>
                \E u \in users : u.id = signup[tab].user /\ u.email = signup[tab].email)
    /\ [][\A tab \in Tabs :
            LET old == signup[tab].pc
                new == signup'[tab].pc
            IN  signup'[tab] # signup[tab] =>
                  /\ <<old, new>> \in
                        {<<"idle", "lookup">>, <<"idle", "threw">>,
                         <<"lookup", "hash">>, <<"lookup", "threw">>,
                         <<"hash", "create">>,
                         <<"create", "email">>, <<"create", "threw">>,
                         <<"email", "returned">>, <<"email", "threw">>,
                         <<"returned", "idle">>, <<"threw", "idle">>}
                  /\ (users' # users) <=> (old = "create" /\ new = "email")
                  /\ (outbox' # outbox) <=> (old = "email" /\ new = "returned")
                  /\ (old = "email" /\ new = "returned") =>
                        outbox' = outbox \cup {signup[tab].user}
                  /\ (old = "email" /\ new = "threw") =>
                        /\ signup'[tab].error = "Email failed"
                        /\ users' = users
                        /\ signup[tab].user \in Ids(users')]_vars

\* A signUp whose email failed has thrown; its user is in the table and got no
\* email, while the other tab's signUp went through all its steps.
EmailFailedWitness ==
    \E t1, t2 \in Tabs :
        /\ signup[t1].pc = "threw"
        /\ signup[t1].error = "Email failed"
        /\ signup[t1].user \in Ids(users)
        /\ signup[t1].user \notin outbox
        /\ signup[t2].pc = "returned"
        /\ signup[t2].user \in outbox

\* ------------------------------------------------------------------ root layout script
\* Attribute names, as the pieces the script tells apart: a name is a first
\* piece and the rest of the name.
AttributeNames ==
    {<<"bis_skin_checked">>, <<"bis_register">>, <<"data-arp">>,
     <<"__processed_", "7f3a">>, <<"class">>, <<"data-arp", "-id">>}

\* el.hasAttribute(name), el.removeAttribute(name) go by the whole name.
hasAttribute(attributes, name) == name \in attributes

\* Faulty variant: a test for the name '__processed_' itself.
startsWithWhole(name, prefix) == name = <<prefix>>

\* attr.name.startsWith(prefix)
startsWith(name, prefix) == name[1] = prefix

\* The attributes of an element after the body of the forEach has run on it.
removeFromElement(attributes) ==
    LET a1 == IF hasAttribute(attributes, <<"bis_skin_checked">>)
              THEN attributes \ {<<"bis_skin_checked">>} ELSE attributes
        a2 == IF hasAttribute(a1, <<"bis_register">>)
              THEN a1 \ {<<"bis_register">>} ELSE a1
        a3 == IF hasAttribute(a2, <<"data-arp">>) THEN a2 \ {<<"data-arp">>} ELSE a2
    IN  a3 \ {name \in a3 : startsWith(name, "__processed_")}

\* removeAttributes(): document.querySelectorAll('*').forEach(...)
removeAttributes(document) == [el \in DOMAIN document |-> removeFromElement(document[el])]

\* The parser reaches the script: it runs removeAttributes, sets the timeout and
\* adds the listener.
ScriptRuns ==
    /\ layoutScript.ran = 0
    /\ dom' = removeAttributes(dom)
    /\ layoutScript' = [ran |-> 1, timeout |-> "pending", listener |-> "registered",
                        cleaned |-> (removeAttributes(dom) # dom)]
    /\ UNCHANGED layoutFrame

\* setTimeout(removeAttributes, 0) fires.
TimeoutFires ==
    /\ layoutScript.timeout = "pending"
    /\ dom' = removeAttributes(dom)
    /\ layoutScript' = [layoutScript EXCEPT !.ran = @ + 1, !.timeout = "fired",
                                            !.cleaned = (removeAttributes(dom) # dom)]
    /\ UNCHANGED layoutFrame

\* The parser reaches an element after the script.
ParseElement(el, attributes) ==
    /\ layoutScript.ran >= 1
    /\ el \notin DOMAIN dom
    /\ dom' = [e \in DOMAIN dom \cup {el} |-> IF e = el THEN attributes ELSE dom[e]]
    /\ UNCHANGED <<layoutScript, layoutFrame>>

\* The document is parsed: DOMContentLoaded fires, once, and the listener runs.
DOMContentLoaded ==
    /\ DOMAIN dom = Elements
    /\ layoutScript.listener = "registered"
    /\ dom' = removeAttributes(dom)
    /\ layoutScript' = [layoutScript EXCEPT !.ran = @ + 1, !.listener = "fired",
                                            !.cleaned = (removeAttributes(dom) # dom)]
    /\ UNCHANGED layoutFrame

\* A browser extension marks an element.
ExtensionSetsAttribute(el, name) ==
    /\ el \in DOMAIN dom
    /\ name \notin dom[el]
    /\ dom' = [dom EXCEPT ![el] = @ \cup {name}]
    /\ UNCHANGED <<layoutScript, layoutFrame>>

\* The parser has reached the body; the script is next.
InitLayout ==
    /\ InitSearch!1 /\ InitSearch!2 /\ InitSearch!3 /\ InitSearch!4 /\ InitSearch!5
    /\ InitSearch!6 /\ InitSearch!7 /\ InitSearch!8 /\ InitSearch!9 /\ InitSearch!10
    /\ InitSearch!11 /\ InitSearch!12 /\ InitSearch!13 /\ InitSearch!14 /\ InitSearch!15
    /\ InitSearch!16
    /\ search = IdleSearch
    /\ loginReq = [tab \in Tabs |-> IdleLogin]
    /\ dom = [el \in {"body"} |-> {<<"class">>}]
    /\ layoutScript = IdleScript

NextLayout ==
    \/ ScriptRuns
    \/ TimeoutFires
    \/ ParseElement("div", {<<"class">>})
    \/ DOMContentLoaded
    \/ \E el \in Elements, name \in AttributeNames : ExtensionSetsAttribute(el, name)

SpecLayout == InitLayout /\ [][NextLayout]_vars

\* C25: each run of removeAttributes takes from every element of the document
\* exactly the attributes bis_skin_checked, bis_register, data-arp and those whose
\* name starts with '__processed_', and leaves every other attribute and the set
\* of elements as they were; a second run on the result would change nothing.
\* The script runs it once itself and schedules it twice more, on a timeout and
\* on DOMContentLoaded, so it runs at most three times.
RemoveAttributesExact ==
    /\ [](/\ layoutScript.ran <= 3
          /\ layoutScript.ran = 0 =>
                layoutScript.timeout = "none" /\ layoutScript.listener = "none"
          /\ layoutScript.ran >= 1 =>
                /\ layoutScript.timeout \in {"pending", "fired"}
                /\ layoutScript.listener \in {"registered", "fired"}
                /\ layoutScript.ran = 1 + (IF layoutScript.timeout = "fired" THEN 1 ELSE 0)
                                        + (IF layoutScript.listener = "fired" THEN 1 ELSE 0))
    /\ [][layoutScript'.ran # layoutScript.ran =>
            /\ layoutScript'.ran = layoutScript.ran + 1
            /\ DOMAIN dom' = DOMAIN dom
            /\ \A el \in DOMAIN dom : \A name \in AttributeNames :
                  name \in dom'[el] <=>
                      /\ name \in dom[el]
                      /\ name \notin {<<"bis_skin_checked">>, <<"bis_register">>,
                                      <<"data-arp">>}
                      /\ name[1] # "__processed_"
            /\ removeAttributes(dom') = dom']_vars

\* All three runs have happened, the last one took attributes away, and both
\* elements keep their class and the div its data-arp-id.
ThreeRunsWitness ==
    /\ layoutScript.ran = 3
    /\ layoutScript.cleaned
    /\ dom["body"] = {<<"class">>}
    /\ dom["div"] = {<<"class">>, <<"data-arp", "-id">>}

====
